---- MODULE Spec2Model ----
(***************************************************************************)
(* Model of the borrowed account identifier AccountIdRef                   *)
(* (src/src/account_id_ref.rs): its validating and unchecked constructors, *)
(* its predicates, its comparisons with raw text, its conversion to the    *)
(* owned identifier and its generator of arbitrary identifiers.            *)
(*                                                                         *)
(* A text (Rust str) is a sequence of characters; a character is a         *)
(* one-character string, except the two non-ASCII characters of the test   *)
(* corpus, which are written by their code point ("U+044A", "U+0192").     *)
(***************************************************************************)
EXTENDS Integers, Sequences, FiniteSets, TLC

VARIABLES
  id,       \* the raw text handed to the constructors
  build,    \* "debug" (debug assertions on) or "release"
  res,      \* outcome of AccountIdRef::new(id), or NotCalled
  ures,     \* outcome of AccountIdRef::new_unchecked(id), or NotCalled
  ans,      \* the last predicate call on the validated view and its result
  owned,    \* the owned AccountId made from the validated view, or NotCalled
  parent,   \* text of a second validated identifier (sub-account checks)
  grand,    \* text of a third validated identifier (sub-account checks)
  calls,    \* the is_sub_account_of calls made so far, with their results
  other,    \* a raw string compared with the identifier
  cmp,      \* the last comparison call and its result
  arb_s,    \* arbitrary: the local s, the text the loop is trying
  pc,       \* arbitrary: "idle", "call", "match", "done" or "panic"
  attempt,  \* arbitrary: what AccountIdRef::new(s) returned in this pass
  out,      \* arbitrary: what the loop broke with, or NotCalled
  iters     \* arbitrary: the number of loop iterations started

\* the state of Arbitrary::arbitrary
arbvars ==
  <<arb_s, pc, attempt, out, iters>>

vars ==
  <<id, build, res, ures, ans, owned, parent, grand, calls, other, cmp,
    arbvars>>

----------------------------------------------------------------------------
(* Bounds of the model.                                                    *)

\* longest raw text enumerated character by character
MaxLen == 4

\* longest identifier text in the sub-account specification
MaxSelfLen == 7

\* longest raw text in the comparison specification (the identifier may be
\* one character longer)
MaxCmpLen == 2

----------------------------------------------------------------------------
(* Characters and their UTF-8 encoding.                                    *)

LowerSeq ==
  << "a", "b", "c", "d", "e", "f", "g", "h", "i", "j", "k", "l", "m",
     "n", "o", "p", "q", "r", "s", "t", "u", "v", "w", "x", "y", "z" >>

UpperSeq ==
  << "A", "B", "C", "D", "E", "F", "G", "H", "I", "J", "K", "L", "M",
     "N", "O", "P", "Q", "R", "S", "T", "U", "V", "W", "X", "Y", "Z" >>

DigitSeq ==
  << "0", "1", "2", "3", "4", "5", "6", "7", "8", "9" >>

Range(f) ==
  { f[i] : i \in DOMAIN f }

IndexOf(seq, c) ==
  CHOOSE i \in DOMAIN seq : seq[i] = c

\* every character the texts of the model are made of
AllChars ==
  Range(LowerSeq) \cup Range(UpperSeq) \cup Range(DigitSeq)
    \cup { " ", "-", ".", "@", "_", "|", "U+0192", "U+044A" }

\* the UTF-8 encoding of the characters
Utf8Table ==
  [ c \in AllChars |->
      IF c \in Range(LowerSeq) THEN << 96 + IndexOf(LowerSeq, c) >>
      ELSE IF c \in Range(DigitSeq) THEN << 47 + IndexOf(DigitSeq, c) >>
      ELSE IF c \in Range(UpperSeq) THEN << 64 + IndexOf(UpperSeq, c) >>
      ELSE IF c = " " THEN << 32 >>
      ELSE IF c = "-" THEN << 45 >>
      ELSE IF c = "." THEN << 46 >>
      ELSE IF c = "@" THEN << 64 >>
      ELSE IF c = "_" THEN << 95 >>
      ELSE IF c = "|" THEN << 124 >>
      ELSE IF c = "U+0192" THEN << 198, 146 >>
      ELSE << 209, 138 >> ]      \* "U+044A"

\* the bytes of one character, as str stores it
Utf8(c) ==
  Utf8Table[c]

\* the bytes of the characters from position i on
as_bytes_from(s, i) ==
  LET from[k \in 1..(Len(s) + 1)] ==
        IF k > Len(s) THEN << >> ELSE Utf8(s[k]) \o from[k + 1]
  IN from[i]

\* AccountIdRef::as_bytes / str::as_bytes: the bytes of the whole text
as_bytes(s) ==
  as_bytes_from(s, 1)

\* str::len: the length in bytes
len(s) ==
  Len(as_bytes(s))

\* AccountIdRef::as_str: the text of a view
as_str(v) ==
  v.text

----------------------------------------------------------------------------
(* The validator (crate::validation), which the constructors call.         *)

MIN_LEN == 2

MAX_LEN == 64

Separators ==
  { "-", "_", "." }

AllowedChars ==
  Range(LowerSeq) \cup Range(DigitSeq) \cup Separators

\* Option<(usize, char)>: a sequence of length 0 (None) or 1 (Some)
NoChar ==
  << >>

SomeChar(i, c) ==
  << << i, c >> >>

ParseAccountError(kind, char) ==
  [ok |-> FALSE, kind |-> kind, char |-> char]

OkUnit ==
  [ok |-> TRUE]

\* the left-to-right scan from position i; positions are 1-based here and
\* reported 0-based
scan(s, i) ==
  LET from[k \in 1..(Len(s) + 1)] ==
        IF k > Len(s) THEN OkUnit
        ELSE IF s[k] \notin AllowedChars
          THEN ParseAccountError("InvalidChar", SomeChar(k - 1, s[k]))
        ELSE IF /\ s[k] \in Separators
                /\ (k = 1 \/ k = Len(s) \/ s[k - 1] \in Separators)
          THEN ParseAccountError("RedundantSeparator", SomeChar(k - 1, s[k]))
        ELSE from[k + 1]
  IN from[i]

validate(account_id) ==
  IF len(account_id) < MIN_LEN THEN ParseAccountError("TooShort", NoChar)
  ELSE IF len(account_id) > MAX_LEN THEN ParseAccountError("TooLong", NoChar)
  ELSE scan(account_id, 1)

----------------------------------------------------------------------------
(* Constructors.                                                           *)

\* a view aliases the text it was built from
View(s) ==
  [ok |-> TRUE, text |-> s]

NotCalled ==
  [ok |-> FALSE, kind |-> "NotCalled", char |-> NoChar]

Panicked ==
  [ok |-> FALSE, kind |-> "Panic", char |-> NoChar]

\* new with the `?` left out: the validator's verdict is dropped
new_unpropagated(s) ==
  View(s)

\* new building its own error value, without the offending position
new_without_position(s) ==
  LET r == validate(s) IN
    IF r.ok THEN View(s) ELSE ParseAccountError(r.kind, NoChar)

\* new reporting the offending position counted from one
new_one_based_position(s) ==
  LET r == validate(s) IN
    IF r.ok THEN View(s)
    ELSE IF r.char = NoChar THEN r
    ELSE ParseAccountError(r.kind, SomeChar(r.char[1][1] + 1, r.char[1][2]))

\* validate(id)?; Ok(view)
new(s) ==
  LET r == validate(s) IN IF r.ok THEN View(s) ELSE r

\* new_unchecked with assert! in place of debug_assert!
new_unchecked_assert(s, debug_assertions) ==
  IF ~validate(s).ok THEN Panicked ELSE View(s)

\* debug_assert!(validate(id).is_ok()); view
new_unchecked(s, debug_assertions) ==
  IF debug_assertions /\ ~validate(s).ok THEN Panicked ELSE View(s)

----------------------------------------------------------------------------
(* str operations the methods use.                                         *)

\* str::contains(char)
contains(s, c) ==
  \E i \in DOMAIN s : s[i] = c

\* Option<&str>: a sequence of length 0 (None) or 1 (Some)
None ==
  << >>

Some(x) ==
  << x >>

\* str::strip_suffix: the text before the suffix, when s ends with it
strip_suffix(s, suffix) ==
  IF /\ Len(suffix) <= Len(s)
     /\ SubSeq(s, Len(s) - Len(suffix) + 1, Len(s)) = suffix
  THEN Some(SubSeq(s, 1, Len(s) - Len(suffix)))
  ELSE None

\* Option::and_then(|s| s.strip_suffix('.'))
and_then_strip_dot(o) ==
  IF o = None THEN None ELSE strip_suffix(o[1], << "." >>)

\* Option::map_or(false, |s| !s.contains('.'))
map_or_no_dot(o) ==
  IF o = None THEN FALSE ELSE ~contains(o[1], ".")

\* str == str: equality of the bytes
str_eq(a, b) ==
  as_bytes(a) = as_bytes(b)

\* Ord for [u8]: the first differing byte decides, then the length
RECURSIVE bytes_cmp(_, _, _)
bytes_cmp(a, b, i) ==
  IF i > Len(a) /\ i > Len(b) THEN "Equal"
  ELSE IF i > Len(a) THEN "Less"
  ELSE IF i > Len(b) THEN "Greater"
  ELSE IF a[i] < b[i] THEN "Less"
  ELSE IF a[i] > b[i] THEN "Greater"
  ELSE bytes_cmp(a, b, i + 1)

\* str::partial_cmp: always Some(ordering of the bytes)
str_partial_cmp(a, b) ==
  Some(bytes_cmp(as_bytes(a), as_bytes(b), 1))

----------------------------------------------------------------------------
(* Predicates of a view.                                                   *)

SystemText ==
  << "s", "y", "s", "t", "e", "m" >>

\* #[derive(PartialEq)] on AccountIdRef(str)
eq_Ref_Ref(self, o) ==
  str_eq(self.text, o.text)

\* impl PartialEq<str> for AccountIdRef
eq_Ref_str(self, x) ==
  str_eq(self.text, x)

is_system(self) ==
  eq_Ref_str(self, SystemText)

\* is_top_level without the exclusion of the system account
is_top_level_no_system(self) ==
  ~contains(self.text, ".")

is_top_level(self) ==
  ~is_system(self) /\ ~contains(self.text, ".")

\* is_sub_account_of without the '.' between prefix and parent
is_sub_account_of_no_boundary(self, p) ==
  map_or_no_dot(strip_suffix(self.text, as_str(p)))

\* is_sub_account_of accepting a prefix of several labels
is_sub_account_of_any_depth(self, p) ==
  and_then_strip_dot(strip_suffix(self.text, as_str(p))) # None

is_sub_account_of(self, p) ==
  map_or_no_dot(and_then_strip_dot(strip_suffix(self.text, as_str(p))))

IsHexByte(b) ==
  (97 <= b /\ b <= 102) \/ (48 <= b /\ b <= 57)

\* is_implicit without the length test
is_implicit_any_len(self) ==
  \A i \in DOMAIN as_bytes(self.text) : IsHexByte(as_bytes(self.text)[i])

is_implicit(self) ==
  /\ len(self.text) = 64
  /\ \A i \in DOMAIN as_bytes(self.text) : IsHexByte(as_bytes(self.text)[i])

----------------------------------------------------------------------------
(* Conversion to the owned identifier.                                     *)

\* the character a byte sequence encodes
CharOf(bs) ==
  CHOOSE c \in AllChars : Utf8(c) = bs

\* the text stored in a copied buffer, read from byte i on: one or two
\* bytes per character; b is the buffer, taken once
from_bytes(bs, i) ==
  LET decode[b \in { bs }] ==
        LET from[k \in 1..(Len(b) + 1)] ==
              IF k > Len(b) THEN << >>
              ELSE IF b[k] < 128 THEN << CharOf(<< b[k] >>) >> \o from[k + 1]
              ELSE << CharOf(<< b[k], b[k + 1] >>) >> \o from[k + 2]
        IN from[i]
  IN decode[bs]

\* to_owned copying one byte too few
to_owned_short(self) ==
  [ok |-> TRUE,
   text |-> from_bytes(SubSeq(as_bytes(self.text), 1, len(self.text) - 1), 1)]

\* AccountId(self.0.into()): a new buffer holding a copy of the bytes
to_owned(self) ==
  [ok |-> TRUE, text |-> from_bytes(as_bytes(self.text), 1)]

\* impl From<&AccountIdRef> for AccountId
from_ref(v) ==
  to_owned(v)

----------------------------------------------------------------------------
(* The raw texts a caller hands to the constructors.                       *)

\* all texts over the alphabet A of at most n characters
Strs(A, n) ==
  UNION { [1..k -> A] : k \in 0..n }

\* a hex letter, a digit, two separators, an upper-case letter and a
\* two-byte character
Alphabet ==
  { "a", "0", "-", ".", "A", "U+044A" }

RECURSIVE Rep(_, _)
Rep(c, n) ==
  IF n <= 0 THEN << >> ELSE << c >> \o Rep(c, n - 1)

\* texts around the length limit: a short head, one character repeated, and
\* at most one closing character (62 to 67 characters)
LongInputs ==
  { pre \o Rep(fill, n) \o suf :
      pre \in Strs({ "a", ".", "z" }, 2),
      fill \in { "a", "0", "z", ".", "U+044A" },
      n \in (MAX_LEN - 2)..(MAX_LEN + 1),
      suf \in Strs({ "a", ".", "A" }, 1) }

Hex16 ==
  << "0", "1", "2", "3", "4", "5", "6", "7",
     "8", "9", "a", "b", "c", "d", "e", "f" >>

Hex64 ==
  Hex16 \o Hex16 \o Hex16 \o Hex16

Dec64 ==
  DigitSeq \o DigitSeq \o DigitSeq \o DigitSeq \o DigitSeq \o DigitSeq
    \o << "0", "1", "2", "3" >>

\* texts of the documentation examples and of the unit tests
Corpus ==
  { SystemText,
    << "s", "y", "s", "t", "e", "n" >>,
    << "s", "y", "s", "t", "e" >>,
    << "s", "y", "s", "t", "e", "m", "s" >>,
    << "s", "y", "s", ".", "t", "e", "m" >>,
    << "n", "e", "a", "r" >>,
    << "a", "l", "i", "c", "e", ".", "n", "e", "a", "r" >>,
    << "a", "p", "p", ".", "a", "l", "i", "c", "e", ".", "n", "e", "a", "r" >>,
    << "i", "n", "v", "a", "l", "i", "d", "." >>,
    << "E", "r", "i", "n", "M", "o", "r", "i", "a", "r", "t", "y", ".",
       "n", "e", "a", "r" >>,
    << "-", "K", "a", "r", "l", "U", "r", "b", "a", "n", ".",
       "n", "e", "a", "r" >>,
    << "a", "n", "t", "h", "o", "n", "y", "s", "t", "a", "r", "r", "." >>,
    << "j", "a", "c", "k", "_", "_", "Q", "u", "a", "i", "d", ".",
       "n", "e", "a", "r" >>,
    << "b", "-", "o", "_", "w", "_", "e", "-", "n" >>,
    << "n", "o", "_", "l", "o", "l", "s" >>,
    << "0", "_", "_", "0" >>,
    << "0", "_", "-", "_", "0" >>,
    << "a", "_", "-", "b" >>,
    << "a", "b", "_", "-", "c" >>,
    << "a", ".", ".", "n", "e", "a", "r" >>,
    << "n", "e", "a", "r", "@" >>,
    << "h", "e", "l", "l", "o", " ", "w", "o", "r", "l", "d" >>,
    << "a", "|", "b", "c", "d" >>,
    << "U+0192", "e", "l", "i", "c", "i", "a", ".", "n", "e", "a", "r" >>,
    << "U+044A", "@", "a", "a" >>,
    << "U+044A", ".", "a", "a" >>,
    Hex64,
    [Hex64 EXCEPT ![2] = "."],
    [Hex64 EXCEPT ![4] = "-"],
    [Hex64 EXCEPT ![6] = "_"],
    [Hex64 EXCEPT ![64] = "g"],
    SubSeq(Hex64, 1, 63),
    SubSeq(Hex64, 1, 62),
    Dec64,
    Dec64 \o << "4" >> }

Inputs ==
  Strs(Alphabet, MaxLen) \cup LongInputs \cup Corpus

----------------------------------------------------------------------------
(* One identifier: construction, predicates, conversion.                   *)

NoAnswer ==
  [op |-> "none", val |-> FALSE]

NoCall ==
  [op |-> "none", lhs |-> "", rhs |-> "", val |-> None]

\* arbitrary is not running
ArbIdle ==
  /\ arb_s = << >>
  /\ pc = "idle"
  /\ attempt = NotCalled
  /\ out = NotCalled
  /\ iters = 0

Init ==
  /\ id \in Inputs
  /\ build \in { "debug", "release" }
  /\ res = NotCalled
  /\ ures = NotCalled
  /\ ans = NoAnswer
  /\ owned = NotCalled
  /\ parent = << >>
  /\ grand = << >>
  /\ calls = { }
  /\ other = << >>
  /\ cmp = NoCall
  /\ ArbIdle

\* a failed debug assertion ends the program
Running ==
  ures # Panicked

\* let r = AccountIdRef::new(id)
CallNew ==
  /\ Running
  /\ res = NotCalled
  /\ res' = new(id)
  /\ UNCHANGED <<id, build, ures, ans, owned, parent, grand, calls, other, cmp,
              arbvars>>

\* let u = AccountIdRef::new_unchecked(id)
CallNewUnchecked ==
  /\ Running
  /\ ures = NotCalled
  /\ ures' = new_unchecked(id, build = "debug")
  /\ UNCHANGED <<id, build, res, ans, owned, parent, grand, calls, other, cmp,
              arbvars>>

\* r.is_system()
CallIsSystem ==
  /\ Running
  /\ res.ok
  /\ ans' = [op |-> "is_system", val |-> is_system(res)]
  /\ UNCHANGED <<id, build, res, ures, owned, parent, grand, calls, other, cmp,
              arbvars>>

\* r.is_top_level()
CallIsTopLevel ==
  /\ Running
  /\ res.ok
  /\ ans' = [op |-> "is_top_level", val |-> is_top_level(res)]
  /\ UNCHANGED <<id, build, res, ures, owned, parent, grand, calls, other, cmp,
              arbvars>>

\* r.is_implicit()
CallIsImplicit ==
  /\ Running
  /\ res.ok
  /\ ans' = [op |-> "is_implicit", val |-> is_implicit(res)]
  /\ UNCHANGED <<id, build, res, ures, owned, parent, grand, calls, other, cmp,
              arbvars>>

\* r.to_owned() / AccountId::from(r)
CallToOwned ==
  /\ Running
  /\ res.ok
  /\ owned = NotCalled
  /\ \E conv \in { "to_owned", "from" } :
       owned' = IF conv = "to_owned" THEN to_owned(res) ELSE from_ref(res)
  /\ UNCHANGED <<id, build, res, ures, ans, parent, grand, calls, other, cmp,
              arbvars>>

Next ==
  \/ CallNew
  \/ CallNewUnchecked
  \/ CallIsSystem
  \/ CallIsTopLevel
  \/ CallIsImplicit
  \/ CallToOwned

Spec ==
  Init /\ [][Next]_vars

----------------------------------------------------------------------------
(* Properties of one identifier.                                           *)

Letters ==
  Range(LowerSeq)

Digits ==
  Range(DigitSeq)

Seps ==
  { "-", "_", "." }

IdChars ==
  Letters \cup Digits \cup Seps

HexChars ==
  Digits \cup { "a", "b", "c", "d", "e", "f" }

\* the structural invariants of an identifier text
Structural(s) ==
  /\ MIN_LEN <= Len(s) /\ Len(s) <= MAX_LEN
  /\ \A i \in DOMAIN s : s[i] \in IdChars
  /\ s[1] \notin Seps
  /\ s[Len(s)] \notin Seps
  /\ \A i \in 1..(Len(s) - 1) : ~(s[i] \in Seps /\ s[i + 1] \in Seps)

ErrorKinds ==
  { "TooShort", "TooLong", "InvalidChar", "RedundantSeparator" }

Called(r) ==
  r # NotCalled

\* C1: new(s) returns a view, whose text is s, exactly when s satisfies the
\* structural invariants (2 <= len <= 64, only a-z 0-9 - _ ., no separator
\* first or last, no two adjacent separators); otherwise it returns an
\* error and no view.
C1_NewFailsClosed ==
  Called(res) =>
    IF Structural(id)
      THEN res = [ok |-> TRUE, text |-> id]
      ELSE ~res.ok /\ res.kind \in ErrorKinds /\ DOMAIN res = { "ok", "kind", "char" }

\* C1 witness: a text with two adjacent separators of different kinds in its
\* middle was rejected by new
C1_Witness ==
  /\ Called(res) /\ ~res.ok
  /\ Len(id) = 4
  /\ id[1] \notin Seps /\ id[2] = "-" /\ id[3] = "." /\ id[4] = "a"

\* the number of bytes of a text: one per ASCII character, two for the
\* two non-ASCII characters
RECURSIVE ByteLen(_)
ByteLen(s) ==
  IF s = << >> THEN 0
  ELSE (IF Head(s) \in { "U+0192", "U+044A" } THEN 2 ELSE 1) + ByteLen(Tail(s))

\* C2: the length check comes first: a text shorter than 2 is TooShort and
\* one longer than 64 is TooLong, both without a position, whatever its
\* characters; InvalidChar and RedundantSeparator are reported only for
\* lengths 2..64 and always with a position.
C2_LengthFirst ==
  Called(res) =>
    /\ ByteLen(id) < 2 => ~res.ok /\ res.kind = "TooShort" /\ res.char = << >>
    /\ ByteLen(id) > 64 => ~res.ok /\ res.kind = "TooLong" /\ res.char = << >>
    /\ (~res.ok /\ res.kind \in { "InvalidChar", "RedundantSeparator" }) =>
         /\ 2 <= ByteLen(id) /\ ByteLen(id) <= 64
         /\ Len(res.char) = 1

\* C2 witness: a text longer than 64 that starts with a separator and holds an
\* upper-case letter was reported TooLong
C2_Witness ==
  /\ Called(res) /\ ~res.ok /\ res.kind = "TooLong"
  /\ id[1] = "."
  /\ \E i \in DOMAIN id : id[i] = "A"

\* position i (1-based) of s holds a character outside the set, or a
\* separator that is first, last or right after another separator
Offending(s, i) ==
  \/ s[i] \notin IdChars
  \/ /\ s[i] \in Seps
     /\ (i = 1 \/ i = Len(s) \/ s[i - 1] \in Seps)

\* C3: a rejected text of length 2..64 is reported at its first offending
\* index i with the character s[i]: InvalidChar when s[i] is outside the
\* character set, RedundantSeparator when it is a misplaced separator.
C3_FirstOffence ==
  (Called(res) /\ ~res.ok /\ 2 <= ByteLen(id) /\ ByteLen(id) <= 64) =>
    \E i \in DOMAIN id :
      /\ Offending(id, i)
      /\ \A j \in 1..(i - 1) : ~Offending(id, j)
      /\ res.char = << << i - 1, id[i] >> >>
      /\ res.kind = IF id[i] \in IdChars THEN "RedundantSeparator"
                                        ELSE "InvalidChar"

\* C3 witness: a rejected text with a misplaced separator followed later by
\* a character outside the set
C3_Witness ==
  /\ Called(res) /\ ~res.ok /\ res.kind = "RedundantSeparator"
  /\ \E i \in DOMAIN id : i > res.char[1][1] + 1 /\ id[i] \notin IdChars

\* C4: is_top_level is true exactly when the text is not "system" and holds
\* no '.'; "system" is valid, is_system is true of it and of no other text.
C4_TopLevel ==
  /\ (Called(res) /\ id = << "s", "y", "s", "t", "e", "m" >>) => res.ok
  /\ ans.op = "is_system" =>
       (ans.val <=> id = << "s", "y", "s", "t", "e", "m" >>)
  /\ ans.op = "is_top_level" =>
       (ans.val <=> /\ id # << "s", "y", "s", "t", "e", "m" >>
                    /\ \A i \in DOMAIN id : id[i] # ".")

\* C4 witness: is_top_level answered false for "system"
C4_Witness ==
  /\ id = << "s", "y", "s", "t", "e", "m" >>
  /\ ans = [op |-> "is_top_level", val |-> FALSE]

\* C7: is_implicit is true exactly when the text has 64 characters, all of
\* them in 0-9 or a-f.
C7_Implicit ==
  ans.op = "is_implicit" =>
    (ans.val <=> Len(id) = 64 /\ \A i \in DOMAIN id : id[i] \in HexChars)

\* C7 witness: is_implicit answered true for a 64-character identifier
C7_Witness ==
  /\ ans = [op |-> "is_implicit", val |-> TRUE]
  /\ Len(id) = 64

\* C9: converting the validated view to an owned identifier succeeds, the
\* owned text is the validated text, it satisfies the structural invariants
\* and the view still holds the same text.
C9_RoundTrip ==
  Called(owned) =>
    /\ owned.ok
    /\ owned.text = id
    /\ Structural(owned.text)
    /\ res = [ok |-> TRUE, text |-> id]

\* C9 witness: an owned identifier was made from a view with a separator
C9_Witness ==
  /\ Called(owned) /\ owned.ok
  /\ \E i \in DOMAIN id : id[i] = "."

\* C10: new_unchecked never returns an error; for a valid text it returns
\* the view new returns; for an invalid text it fails the assertion in a
\* debug build and returns a view over the invalid text in a release build.
C10_Unchecked ==
  Called(ures) =>
    /\ ures.ok \/ ures = Panicked
    /\ Structural(id) =>
         /\ ures = [ok |-> TRUE, text |-> id]
         /\ (Called(res) /\ res.ok) => eq_Ref_Ref(res, ures)
    /\ (~Structural(id) /\ build = "debug") => ures = Panicked
    /\ (~Structural(id) /\ build = "release") =>
         ures = [ok |-> TRUE, text |-> id]

\* C10 witness: a release build returned a view over a text new rejected
C10_Witness ==
  /\ build = "release"
  /\ Called(res) /\ ~res.ok
  /\ Called(ures) /\ ures.ok /\ ures.text = id

----------------------------------------------------------------------------
(* Sub-accounts: three validated identifiers.                              *)

RelAlphabet ==
  { "a", ".", "-" }

\* the texts of at most n characters that new accepts
RelIds(n) ==
  { s \in Strs(RelAlphabet, n) : new(s).ok }

InitRel ==
  /\ id \in RelIds(MaxSelfLen)
  /\ parent \in RelIds(MaxSelfLen - 2)
  /\ grand \in RelIds(MaxSelfLen - 4)
  /\ build = "release"
  /\ res = new(id)
  /\ ures = NotCalled
  /\ ans = NoAnswer
  /\ owned = NotCalled
  /\ calls = { }
  /\ other = << >>
  /\ cmp = NoCall
  /\ ArbIdle

\* id.is_sub_account_of(parent), parent.is_sub_account_of(grand) or
\* id.is_sub_account_of(grand)
CallIsSubAccountOf ==
  \E pair \in { << id, parent >>, << parent, grand >>, << id, grand >> } :
   LET a == pair[1]
       p == pair[2]
   IN
    /\ calls' = calls \cup
         { [self |-> a, parent |-> p,
            val |-> is_sub_account_of(new(a), new(p))] }
    /\ UNCHANGED <<id, build, res, ures, ans, owned, parent, grand, other, cmp,
              arbvars>>

NextRel ==
  CallIsSubAccountOf

SpecRel ==
  InitRel /\ [][NextRel]_vars

\* C5: a.is_sub_account_of(p) is true exactly when a's text is
\* prefix + "." + p's text for a prefix without '.'.
C5_SubAccount ==
  \A c \in calls :
    c.val <=>
      \E k \in 0..Len(c.self) :
        /\ \A i \in 1..k : c.self[i] # "."
        /\ c.self = SubSeq(c.self, 1, k) \o << "." >> \o c.parent

\* C5 witness: a true answer, and a false answer for a text that ends with
\* the parent's text without the '.' before it
C5_Witness ==
  /\ \E c \in calls : c.val
  /\ \E c \in calls :
       /\ ~c.val
       /\ c.self = << "a", "-" >> \o c.parent

\* C6: when a is a sub-account of b and b is a sub-account of c, a is not
\* a sub-account of c.
C6_DirectOnly ==
  \A c1 \in calls, c2 \in calls, c3 \in calls :
    ( /\ c1.parent = c2.self
      /\ c3.self = c1.self
      /\ c3.parent = c2.parent
      /\ c1.val
      /\ c2.val ) => ~c3.val

\* C6 witness: the three calls were made on a chain of two sub-account steps
C6_Witness ==
  \E c1 \in calls, c2 \in calls, c3 \in calls :
    /\ c1.parent = c2.self
    /\ c3.self = c1.self
    /\ c3.parent = c2.parent
    /\ c1.val
    /\ c2.val
    /\ ~c3.val

----------------------------------------------------------------------------
(* Comparisons between an identifier and raw text.  A String, a str and a  *)
(* &str are modelled by their text; an identifier by its view.             *)

\* #[derive(PartialOrd)] on AccountIdRef(str)
partial_cmp_Ref_Ref(self, o) ==
  str_partial_cmp(self.text, o.text)

\* #[derive(Ord)] on AccountIdRef(str)
cmp_Ref_Ref(self, o) ==
  bytes_cmp(as_bytes(self.text), as_bytes(o.text), 1)

\* impl PartialEq<AccountIdRef> for String
eq_String_Ref(self, o) ==
  str_eq(self, o.text)

\* impl PartialEq<String> for AccountIdRef
eq_Ref_String(self, o) ==
  str_eq(self.text, o)

\* impl PartialEq<AccountIdRef> for str
eq_str_Ref(self, o) ==
  str_eq(self, o.text)

\* impl PartialEq<AccountIdRef> for &str
eq_strref_Ref(self, o) ==
  str_eq(self, o.text)

\* impl PartialEq<&str> for AccountIdRef
eq_Ref_strref(self, o) ==
  str_eq(self.text, o)

\* impl PartialEq<&AccountIdRef> for str
eq_str_RefRef(self, o) ==
  str_eq(self, o.text)

\* impl PartialEq<str> for &AccountIdRef
eq_RefRef_str(self, o) ==
  str_eq(self.text, o)

\* impl PartialEq<&AccountIdRef> for String
eq_String_RefRef(self, o) ==
  str_eq(self, o.text)

\* impl PartialEq<String> for &AccountIdRef
eq_RefRef_String(self, o) ==
  str_eq(self.text, o)

\* impl PartialOrd<AccountIdRef> for String
partial_cmp_String_Ref(self, o) ==
  str_partial_cmp(self, o.text)

\* impl PartialOrd<String> for AccountIdRef
partial_cmp_Ref_String(self, o) ==
  str_partial_cmp(self.text, o)

\* impl PartialOrd<AccountIdRef> for str
partial_cmp_str_Ref(self, o) ==
  str_partial_cmp(self, as_str(o))

\* impl PartialOrd<str> for AccountIdRef
partial_cmp_Ref_str(self, o) ==
  str_partial_cmp(as_str(self), o)

\* impl PartialOrd<AccountIdRef> for &str, with the arguments exchanged
partial_cmp_strref_Ref_swapped(self, o) ==
  str_partial_cmp(as_str(o), self)

\* impl PartialOrd<AccountIdRef> for &str
partial_cmp_strref_Ref(self, o) ==
  str_partial_cmp(self, as_str(o))

\* impl PartialOrd<&str> for AccountIdRef
partial_cmp_Ref_strref(self, o) ==
  str_partial_cmp(as_str(self), o)

\* impl PartialOrd<&AccountIdRef> for String
partial_cmp_String_RefRef(self, o) ==
  str_partial_cmp(self, o.text)

\* impl PartialOrd<String> for &AccountIdRef
partial_cmp_RefRef_String(self, o) ==
  str_partial_cmp(self.text, o)

\* impl PartialOrd<&AccountIdRef> for str
partial_cmp_str_RefRef(self, o) ==
  str_partial_cmp(self, as_str(o))

\* impl PartialOrd<str> for &AccountIdRef
partial_cmp_RefRef_str(self, o) ==
  str_partial_cmp(as_str(self), o)

RawTypes ==
  { "String", "str", "&str" }

IdTypes ==
  { "AccountIdRef", "&AccountIdRef" }

\* the pairs of operand types the impls cover: identifier against raw text
\* in both orders (there is none between &AccountIdRef and &str)
MixedPairs ==
  { << l, r >> \in (RawTypes \cup IdTypes) \X (RawTypes \cup IdTypes) :
      /\ (l \in IdTypes) # (r \in IdTypes)
      /\ << l, r >> \notin { << "&AccountIdRef", "&str" >>,
                              << "&str", "&AccountIdRef" >> } }

\* l == r, resolved to the impl for the operand types; v is the view, x the
\* raw text, whichever side each is on
Eq(l, r, v, x) ==
  CASE l = "String" /\ r = "AccountIdRef" -> eq_String_Ref(x, v)
    [] l = "AccountIdRef" /\ r = "String" -> eq_Ref_String(v, x)
    [] l = "str" /\ r = "AccountIdRef" -> eq_str_Ref(x, v)
    [] l = "AccountIdRef" /\ r = "str" -> eq_Ref_str(v, x)
    [] l = "&str" /\ r = "AccountIdRef" -> eq_strref_Ref(x, v)
    [] l = "AccountIdRef" /\ r = "&str" -> eq_Ref_strref(v, x)
    [] l = "str" /\ r = "&AccountIdRef" -> eq_str_RefRef(x, v)
    [] l = "&AccountIdRef" /\ r = "str" -> eq_RefRef_str(v, x)
    [] l = "String" /\ r = "&AccountIdRef" -> eq_String_RefRef(x, v)
    [] l = "&AccountIdRef" /\ r = "String" -> eq_RefRef_String(v, x)

\* l.partial_cmp(r), resolved to the impl for the operand types
PartialCmp(l, r, v, x) ==
  CASE l = "String" /\ r = "AccountIdRef" -> partial_cmp_String_Ref(x, v)
    [] l = "AccountIdRef" /\ r = "String" -> partial_cmp_Ref_String(v, x)
    [] l = "str" /\ r = "AccountIdRef" -> partial_cmp_str_Ref(x, v)
    [] l = "AccountIdRef" /\ r = "str" -> partial_cmp_Ref_str(v, x)
    [] l = "&str" /\ r = "AccountIdRef" -> partial_cmp_strref_Ref(x, v)
    [] l = "AccountIdRef" /\ r = "&str" -> partial_cmp_Ref_strref(v, x)
    [] l = "str" /\ r = "&AccountIdRef" -> partial_cmp_str_RefRef(x, v)
    [] l = "&AccountIdRef" /\ r = "str" -> partial_cmp_RefRef_str(v, x)
    [] l = "String" /\ r = "&AccountIdRef" -> partial_cmp_String_RefRef(x, v)
    [] l = "&AccountIdRef" /\ r = "String" -> partial_cmp_RefRef_String(v, x)

CmpAlphabet ==
  { "a", "b", ".", "A", "U+044A" }

InitCmp ==
  /\ id \in { s \in Strs(CmpAlphabet, MaxCmpLen + 1) : new(s).ok }
  /\ other \in Strs(CmpAlphabet, MaxCmpLen)
  /\ build = "release"
  /\ res = new(id)
  /\ ures = NotCalled
  /\ ans = NoAnswer
  /\ owned = NotCalled
  /\ parent = << >>
  /\ grand = << >>
  /\ calls = { }
  /\ cmp = NoCall
  /\ ArbIdle

\* identifier == raw text, or raw text == identifier
CallEq ==
  /\ \E pair \in MixedPairs :
       cmp' = [op |-> "eq", lhs |-> pair[1], rhs |-> pair[2],
               val |-> Eq(pair[1], pair[2], res, other)]
  /\ UNCHANGED <<id, build, res, ures, ans, owned, parent, grand, calls, other,
              arbvars>>

\* identifier.partial_cmp(raw text), or raw text.partial_cmp(identifier)
CallPartialCmp ==
  /\ \E pair \in MixedPairs :
       cmp' = [op |-> "partial_cmp", lhs |-> pair[1], rhs |-> pair[2],
               val |-> PartialCmp(pair[1], pair[2], res, other)]
  /\ UNCHANGED <<id, build, res, ures, ans, owned, parent, grand, calls, other,
              arbvars>>

\* two identifiers compared with the derived ==, partial_cmp and cmp; the
\* second is the view of the other text, when new accepts it
CallCmpIds ==
  /\ new(other).ok
  /\ \E op \in { "eq", "partial_cmp", "cmp" } :
       cmp' = [op |-> op, lhs |-> "AccountIdRef", rhs |-> "AccountIdRef",
               val |-> CASE op = "eq" -> eq_Ref_Ref(res, new(other))
                         [] op = "partial_cmp" ->
                              partial_cmp_Ref_Ref(res, new(other))
                         [] op = "cmp" -> cmp_Ref_Ref(res, new(other))]
  /\ UNCHANGED <<id, build, res, ures, ans, owned, parent, grand, calls, other,
              arbvars>>

NextCmp ==
  \/ CallEq
  \/ CallPartialCmp
  \/ CallCmpIds

SpecCmp ==
  InitCmp /\ [][NextCmp]_vars

\* the Unicode code point of a character
CodePoint(c) ==
  IF c = "U+044A" THEN 1098
  ELSE IF c = "U+0192" THEN 402
  ELSE Utf8Table[c][1]

\* x is before y in the lexicographic order of the characters
LexLess(x, y) ==
  \E k \in 1..Len(y) :
    /\ k <= Len(x) + 1
    /\ \A j \in 1..(k - 1) : x[j] = y[j]
    /\ k <= Len(x) => CodePoint(x[k]) < CodePoint(y[k])

\* the lexicographic comparison of two texts
LexCmp(x, y) ==
  IF x = y THEN "Equal" ELSE IF LexLess(x, y) THEN "Less" ELSE "Greater"

Reverse(o) ==
  IF o = "Less" THEN "Greater" ELSE IF o = "Greater" THEN "Less" ELSE "Equal"

\* C8: every comparison of an identifier of text t with raw text x, in
\* either order and for every operand type, is the comparison of t with x
\* as plain strings: == is equality of the texts, a.partial_cmp(x) is
\* cmp(t, x), x.partial_cmp(a) is cmp(x, t), the exact reverse; two
\* identifiers compare as their texts.
C8_Comparisons ==
  /\ cmp.op = "eq" => (cmp.val <=> id = other)
  /\ (cmp.op = "partial_cmp" /\ cmp.lhs \in IdTypes) =>
       cmp.val = << LexCmp(id, other) >>
  /\ (cmp.op = "partial_cmp" /\ cmp.lhs \notin IdTypes) =>
       /\ cmp.val = << LexCmp(other, id) >>
       /\ cmp.val = << Reverse(LexCmp(id, other)) >>
  /\ cmp.op = "cmp" => cmp.val = LexCmp(id, other)

\* C8 witness: raw text starting with a two-byte character compared
\* Greater than the identifier, raw text on the left
C8_Witness ==
  /\ cmp.op = "partial_cmp"
  /\ cmp.lhs = "&str"
  /\ cmp.val = << "Greater" >>
  /\ Len(other) > 0
  /\ other[1] = "U+044A"

----------------------------------------------------------------------------
(* Arbitrary::arbitrary: the truncate-and-retry loop over a drawn text.    *)

\* str::is_char_boundary: the start, the end, or a byte that starts a
\* character (not a continuation byte 0x80..0xBF)
is_char_boundary(t, idx) ==
  \/ idx = 0
  \/ idx = len(t)
  \/ /\ idx < len(t)
     /\ ~(128 <= as_bytes(t)[idx + 1] /\ as_bytes(t)[idx + 1] <= 191)

\* &s[..=idx]: the slice that keeps the byte at idx
slice_to_inclusive(t, idx) ==
  IF is_char_boundary(t, idx + 1)
    THEN Some(from_bytes(SubSeq(as_bytes(t), 1, idx + 1), 1))
    ELSE None

\* &s[..idx]: the first idx bytes, or None where the slice panics (idx
\* past the end or inside a character)
slice_to(t, idx) ==
  IF is_char_boundary(t, idx)
    THEN Some(from_bytes(SubSeq(as_bytes(t), 1, idx), 1))
    ELSE None

\* arbitrary::Error::IncorrectFormat
IncorrectFormat ==
  [ok |-> FALSE, kind |-> "IncorrectFormat", char |-> NoChar]

\* the texts of test_arbitrary
ArbCorpus ==
  { << "a", "|", "b", "c", "d" >>,
    << "a", "b", "|", "c", "d", "e" >>,
    << "a", "_", "-", "b" >>,
    << "a", "b", "_", "-", "c" >>,
    << "a" >>,
    << "m", "i", "r", "a", "c", "l", "x", ".", "n", "e", "a", "r" >>,
    Dec64 \o << "4" >> }

\* let mut s = u.arbitrary::<&str>()?; the drawn text is kept in id
InitArb ==
  /\ id \in Inputs \cup ArbCorpus
  /\ arb_s = id
  /\ pc = "call"
  /\ attempt = NotCalled
  /\ out = NotCalled
  /\ iters = 0
  /\ build = "release"
  /\ res = NotCalled
  /\ ures = NotCalled
  /\ ans = NoAnswer
  /\ owned = NotCalled
  /\ parent = << >>
  /\ grand = << >>
  /\ calls = { }
  /\ other = << >>
  /\ cmp = NoCall

\* loop { match AccountIdRef::new(s) { .. } }: the head of a pass calls new
\* on the current s
ArbCall ==
  /\ pc = "call"
  /\ attempt' = new(arb_s)
  /\ pc' = "match"
  /\ iters' = iters + 1
  /\ UNCHANGED <<id, build, res, ures, ans, owned, parent, grand, calls,
                 other, cmp, arb_s, out>>

\* Ok(account_id) => break Ok(account_id)
ArbBreakOk ==
  /\ pc = "match"
  /\ attempt.ok
  /\ out' = attempt
  /\ pc' = "done"
  /\ UNCHANGED <<id, build, res, ures, ans, owned, parent, grand, calls,
                 other, cmp, arb_s, attempt, iters>>

\* the retry arm breaking with the error instead of truncating
ArbTruncate_no_retry ==
  /\ pc = "match"
  /\ ~attempt.ok
  /\ attempt.char # NoChar
  /\ out' = IncorrectFormat
  /\ pc' = "done"
  /\ UNCHANGED <<id, build, res, ures, ans, owned, parent, grand, calls,
                 other, cmp, arb_s, attempt, iters>>

\* Err(ParseAccountError { char: Some((idx, _)), .. }) =>
\*   { s = &s[..idx]; continue; }
ArbTruncate ==
  /\ pc = "match"
  /\ ~attempt.ok
  /\ attempt.char # NoChar
  /\ LET idx == attempt.char[1][1]
         cut == slice_to(arb_s, idx)
     IN
       /\ arb_s' = IF cut = None THEN arb_s ELSE cut[1]
       /\ pc' = IF cut = None THEN "panic" ELSE "call"
  /\ UNCHANGED <<id, build, res, ures, ans, owned, parent, grand, calls,
                 other, cmp, attempt, out, iters>>

\* _ => break Err(arbitrary::Error::IncorrectFormat)
ArbBreakErr ==
  /\ pc = "match"
  /\ ~attempt.ok
  /\ attempt.char = NoChar
  /\ out' = IncorrectFormat
  /\ pc' = "done"
  /\ UNCHANGED <<id, build, res, ures, ans, owned, parent, grand, calls,
                 other, cmp, arb_s, attempt, iters>>

NextArb ==
  \/ ArbCall
  \/ ArbBreakOk
  \/ ArbTruncate
  \/ ArbBreakErr

SpecArb ==
  InitArb /\ [][NextArb]_vars

\* the loop runs in one thread with nothing to wait for: a pass that can be
\* taken is taken
SpecArbLive ==
  InitArb /\ [][NextArb]_vars /\ WF_vars(NextArb)

\* the first n characters of a text
Prefix(t, n) ==
  SubSeq(t, 1, n)

\* the lengths of the prefixes of t that are valid identifiers
ValidPrefixLens(t) ==
  { n \in 0..Len(t) : Structural(Prefix(t, n)) }

\* C11: the loop truncates the drawn text s at each reported position and
\* stops with IncorrectFormat on an error without position: an Ok result
\* is a valid identifier and a prefix of s; for len(s) <= 64 the result is
\* the longest valid prefix of s, and IncorrectFormat exactly when s has
\* none; for len(s) > 64 the result is IncorrectFormat.
C11_LongestValidPrefix ==
  pc = "done" =>
    /\ out.ok \/ out = [ok |-> FALSE, kind |-> "IncorrectFormat", char |-> << >>]
    /\ out.ok =>
         /\ Structural(out.text)
         /\ Len(out.text) <= Len(id)
         /\ out.text = Prefix(id, Len(out.text))
    /\ ByteLen(id) <= 64 =>
         /\ out.ok <=> ValidPrefixLens(id) # { }
         /\ out.ok =>
              \A n \in ValidPrefixLens(id) : n <= Len(out.text)
    /\ ByteLen(id) > 64 => ~out.ok

\* C11 witness: after two truncations the loop returned the longest valid
\* prefix of the drawn text
C11_Witness ==
  /\ pc = "done"
  /\ out.ok
  /\ iters = 3
  /\ Len(out.text) < Len(id)

\* the loop is about to truncate: new reported a position for the current s
AtRetry ==
  pc = "match" /\ ~attempt.ok /\ attempt.char # << >>

\* the larger of two numbers
Max(a, b) ==
  IF a < b THEN b ELSE a

\* the truncations made so far: every iteration but the running one ended
\* with one
Retries ==
  IF pc = "call" THEN iters ELSE iters - 1

\* what holds in every state of the loop: no slice panics; a reported
\* position is below len(s) and only accepted ASCII characters are before
\* it; the truncations made plus the length still to try never exceed the
\* length of the drawn text; the loop breaks with Ok or IncorrectFormat
C12_Safe ==
  /\ pc # "panic"
  /\ AtRetry =>
       LET idx == attempt.char[1][1] IN
         /\ idx < ByteLen(arb_s)
         /\ \A j \in 1..idx : arb_s[j] \in IdChars
  /\ Retries + ByteLen(arb_s) <= ByteLen(id)
  /\ pc = "done" =>
       out.ok \/ out = [ok |-> FALSE, kind |-> "IncorrectFormat", char |-> << >>]

\* C12 as stated: the loop runs at most len(s) iterations, whatever the
\* drawn text s. The empty text refutes it: its one iteration breaks with
\* IncorrectFormat, and len(s) is 0.
C12_AtMostLenIterations ==
  C12_Safe /\ iters <= ByteLen(id)

\* C12, amended: the truncate-and-retry loop terminates: every reported
\* position is a slice boundary below len(s), no slice is out of bounds,
\* each retry strictly shortens s, and the loop breaks with Ok or
\* IncorrectFormat after at most len(s) iterations, or after one iteration
\* where s is empty.
C12_Terminates ==
  /\ [](C12_Safe /\ iters <= Max(1, ByteLen(id)))
  /\ [][pc' = "call" => ByteLen(arb_s') < ByteLen(arb_s)]_vars
  /\ <>(pc = "done")

\* C12 witness: the loop broke in its third iteration, after two retries,
\* on a text of three bytes
C12_Witness ==
  /\ pc = "done"
  /\ iters = 3
  /\ ByteLen(id) = 3

====
